---- MODULE Spec2Model ----
(***************************************************************************)
(* A model of edelooff/artefact: the tag resolver and its cache            *)
(* (core.py, types.py), the rate limited page fetcher and the login      *)
(* (http.py) and the lazy paginator (core.py).  Spec runs the resolver,    *)
(* SpecLoad its constructor alone, SpecFetch the fetcher, SpecLogin the    *)
(* fetcher of an instance built with credentials, SpecPaginate the         *)
(* paginator.                                                              *)
(*                                                                         *)
(* Python values are modelled as follows.  None is the string "None" for   *)
(* names and for the tri-state `common` ("None", "True", "False"), and 0   *)
(* for an object reference.  Tag objects live in `heap`; a reference is an *)
(* index into it, so that two names can share, or fail to share, one Tag.  *)
(* A raised exception is the `exc` field of an outcome.                    *)
(***************************************************************************)
EXTENDS Integers, Sequences, FiniteSets, TLC

\* ------------------------------------------------------------------ bounds
NumNames == 2
MaxOps == 3
MaxDepth == 2
MaxInterval == 2
MaxSentinels == 2
MaxFetches == 2
MaxLate == 1
Epoch == 50
MaxPages == 3
MaxEntries == 2
MaxAnchors == 2

AllNames == <<"fluff", "fluffy", "angst", "whump">>
Names == {AllNames[i] : i \in 1..NumNames}
NoName == "None"

\* ------------------------------------------------------------ types.py
TagType == {"character", "freeform", "relationship", "warning"}

TagFields == {"name", "type", "common", "canonical"}

TagRequired == {"name", "type"}

NoTag == [name |-> NoName, type |-> "None", common |-> "None", canonical |-> 0]

\* The dataclass with `type` given a default of None: the constructor a
\* caller that passes only name (and common) needs.
TagInitTypeOptional(kw) ==
    IF DOMAIN kw \subseteq TagFields /\ "name" \in DOMAIN kw
    THEN [ok |-> TRUE,
          tag |-> [name |-> kw["name"],
                   type |-> IF "type" \in DOMAIN kw THEN kw["type"] ELSE "None",
                   common |-> IF "common" \in DOMAIN kw THEN kw["common"] ELSE "None",
                   canonical |-> IF "canonical" \in DOMAIN kw THEN kw["canonical"] ELSE 0]]
    ELSE [ok |-> FALSE, tag |-> NoTag]

\* Tag(**kw): the generated __init__ raises TypeError (ok = FALSE) on a
\* keyword that is no field and on a missing field that has no default.
TagInit(kw) ==
    IF DOMAIN kw \subseteq TagFields /\ TagRequired \subseteq DOMAIN kw
    THEN [ok |-> TRUE,
          tag |-> [name |-> kw["name"],
                   type |-> kw["type"],
                   common |-> IF "common" \in DOMAIN kw THEN kw["common"] ELSE "None",
                   canonical |-> IF "canonical" \in DOMAIN kw THEN kw["canonical"] ELSE 0]]
    ELSE [ok |-> FALSE, tag |-> NoTag]

\* ------------------------------------------------- outcomes of a call
\* w is the resolver's world: [heap, cache, log]; log lists the names whose
\* tag page was fetched during the call, in order.
Raise(w, e) == [w |-> w, exc |-> e, ret |-> 0]

Return(w, ref) == [w |-> w, exc |-> "None", ret |-> ref]

Put(f, k, v) == [x \in DOMAIN f \cup {k} |-> IF x = k THEN v ELSE f[x]]

\* dict.setdefault(name, tag): the cached object when the key is present,
\* otherwise tag is stored and returned.
SetDefault(w, name, tag) ==
    IF name \in DOMAIN w.cache
    THEN Return(w, w.cache[name])
    ELSE LET ref == Len(w.heap) + 1
         IN Return([w EXCEPT !.heap = Append(@, tag),
                             !.cache = Put(@, name, ref)], ref)

\* self._cache[name] = tag: tag is stored under name whether or not the key
\* is present; an object stored there before stays on the heap, where
\* earlier references still reach it.
SetItem(w, name, tag) ==
    LET ref == Len(w.heap) + 1
    IN Return([w EXCEPT !.heap = Append(@, tag),
                        !.cache = Put(@, name, ref)], ref)

\* ------------------------------------------------------------- tag pages
\* What resolve reads of a fetched tag page: whether the navigation actions
\* header is present (`common`), the texts of the synonym tags, and the text
\* of the merger link ("None" when there is none).  A page without the
\* header is read no further.  A tag's page names other tags only.
NonCommonPage == [common |-> FALSE, synonyms |-> {}, merged |-> NoName]

TagPages(name) ==
    {NonCommonPage} \cup
    {[common |-> TRUE, synonyms |-> s, merged |-> m] :
        s \in SUBSET (Names \ {name}), m \in (Names \ {name}) \cup {NoName}}

RECURSIVE SeqOf(_)
SeqOf(S) ==
    IF S = {} THEN <<>>
    ELSE LET x == CHOOSE y \in S : TRUE IN <<x>> \o SeqOf(S \ {x})

\* ------------------------------------------------------- core.py: get
\* args are the positional arguments of the call after self; get takes
\* exactly (name, tag_type).
get(w, args) ==
    IF Len(args) # 2 THEN Raise(w, "TypeError")
    ELSE LET made == TagInit([name |-> args[1]])
         IN IF ~made.ok THEN Raise(w, "TypeError")
            ELSE LET r == SetDefault(w, args[1], made.tag)
                 IN Return([r.w EXCEPT !.heap[r.ret].type = args[2]], r.ret)

\* ---------------------------------------------------- core.py: resolve
\* Lines 90-94: for each synonym text, get() it, point it at the canonical
\* tag and mark it common.
RECURSIVE RecordSynonyms(_, _, _)
RecordSynonyms(w, syns, tag) ==
    IF syns = <<>> THEN Return(w, tag)
    ELSE LET g == get(w, <<Head(syns)>>)
         IN IF g.exc # "None" THEN g
            ELSE RecordSynonyms(
                    [g.w EXCEPT !.heap[g.ret].canonical = tag,
                                !.heap[g.ret].common = "True"],
                    Tail(syns), tag)

\* Line 85: the non-common branch.
MarkNonCommon(w, name) ==
    LET made == TagInit([name |-> name, common |-> "False"])
    IN IF ~made.ok THEN Raise(w, "TypeError")
       ELSE SetDefault(w, name, made.tag)

\* Line 89: the common branch stores a fresh Tag under name.
MarkCommon(w, name) ==
    LET made == TagInit([name |-> name, common |-> "True"])
    IN IF ~made.ok THEN Raise(w, "TypeError")
       ELSE SetItem(w, name, made.tag)

\* Line 80 when fetch_page raises (a transport error leaves fetch_page as
\* it is): resolve ends there, with no page read.
FetchFails(w) == Raise(w, "ConnectionError")

\* The body of resolve after line 80, `page` being what fetch_page returned
\* for name.  The pages of merge targets are whatever the site serves when
\* they are fetched, so the result is a set of outcomes.  depth counts the
\* resolve frames below this one; MaxDepth stands for the interpreter's
\* recursion limit.
RECURSIVE resolvePage(_, _, _, _)
resolvePage(w, name, page, depth) ==
    LET w1 == [w EXCEPT !.log = Append(@, [name |-> name, page |-> page])]
    IN IF ~page.common THEN {MarkNonCommon(w1, name)}
       ELSE LET c == MarkCommon(w1, name)
            IN IF c.exc # "None" THEN {c}
               ELSE LET s == RecordSynonyms(c.w, SeqOf(page.synonyms), c.ret)
                    IN IF s.exc # "None" THEN {s}
                       ELSE IF page.merged = NoName THEN {Return(s.w, c.ret)}
                       ELSE IF depth >= MaxDepth THEN {Raise(s.w, "RecursionError")}
                       ELSE {IF r.exc # "None" THEN r ELSE Return(r.w, c.ret) :
                               r \in {FetchFails(s.w)} \cup
                                     UNION {resolvePage(s.w, page.merged, p, depth + 1) :
                                               p \in TagPages(page.merged)}}

\* resolve(name): line 80 fetches the tag's page, whatever the cache holds.
resolve(w, name) ==
    {FetchFails(w)} \cup UNION {resolvePage(w, name, p, 0) : p \in TagPages(name)}

\* --------------------------------------------------- core.py: __call__
\* The resolver called as a function (the spec's resolveIfEnabled).
call(w, auto, name, tag_type) ==
    LET g == get(w, <<name, tag_type>>)
    IN IF g.exc # "None" THEN {g}
       ELSE IF g.w.heap[g.ret].common = "None" /\ auto
            THEN resolve(g.w, name)
            ELSE {g}

\* ------------------------------------------------------ core.py: save
\* The cache file is a JSON object: a function from keys to values.
NoFile == [exists |-> FALSE, by |-> "none", json |-> <<>>]

Known(w) == {k \in DOMAIN w.cache : w.heap[w.cache[k]].common # "None"}

Synonyms(w) == {k \in DOMAIN w.cache : w.heap[w.cache[k]].canonical # 0}

\* Lines 105-113: the two maps, keyed by tag.name.
Dump(w) ==
    [tags |-> [n \in {w.heap[w.cache[k]].name : k \in Known(w)} |->
                 w.heap[w.cache[CHOOSE k \in Known(w) :
                                    w.heap[w.cache[k]].name = n]].common],
     canon_map |-> [n \in {w.heap[w.cache[k]].name : k \in Synonyms(w)} |->
                 w.heap[w.heap[w.cache[CHOOSE k \in Synonyms(w) :
                                    w.heap[w.cache[k]].name = n]].canonical].name]]

\* save(path): target_path = path or self._cache_file; nothing is written
\* when both are None.
save(w, file, path, cache_file) ==
    IF path = "None" /\ cache_file = "None" THEN file
    ELSE [exists |-> TRUE, by |-> "save", json |-> Dump(w)]

\* -------------------------------------------------- core.py: __init__
IndexOf(seq, x) == CHOOSE i \in 1..Len(seq) : seq[i] = x

EmptyWorld == [heap |-> <<>>, cache |-> <<>>, log |-> <<>>]

\* Lines 59-63: self._cache = {} and, with a cache file, one Tag(**value)
\* per key of the JSON object.
load(cache_file, file) ==
    IF cache_file = "None" THEN Return(EmptyWorld, 0)
    ELSE IF ~file.exists THEN Raise(EmptyWorld, "FileNotFoundError")
    ELSE LET keys == SeqOf(DOMAIN file.json)
             made == [k \in DOMAIN file.json |-> TagInit(file.json[k])]
         IN IF \E k \in DOMAIN file.json : ~made[k].ok
            THEN Raise(EmptyWorld, "TypeError")
            ELSE Return([heap |-> [i \in 1..Len(keys) |-> made[keys[i]].tag],
                         cache |-> [k \in DOMAIN file.json |-> IndexOf(keys, k)],
                         log |-> <<>>], 0)


\* ----------------------------------------------------------------- http.py
\* Response bodies the transport may hand back.
Bodies == {"Retry later", "Retry later\n", "<html>", "<html><p>Retry later</p>"}

\* A check that never recognises the rate limit.
NeverRetryLater(body) == FALSE

\* response.text.startswith("Retry later")
StartsWithRetryLater(body) == body \in {"Retry later", "Retry later\n"}

\* time.sleep(20), line 50
Cooldown == 20

Max(a, b) == IF a >= b THEN a ELSE b

\* Delay._next_call_at
NextCallAt(lastEvent, interval) == lastEvent + interval

\* A fetch_page that catches the transport's exception and tries again.
RetryOnTransportError(f) ==
    [f EXCEPT !.pc = "enter", !.attempt = @ + 1, !.requests = @ + 1]

\* Line 47 when session.get raises: Delay.__exit__ returns None and the loop
\* has no except clause, so the exception leaves fetch_page.
OnTransportError(f) ==
    [f EXCEPT !.pc = "raised", !.result = "ConnectionError", !.requests = @ + 1]

\* A Delay that never sleeps.
NoWait(lastEvent, interval, now) == 0

\* Delay.__enter__, line 105: the argument of time.sleep
EnterSleep(lastEvent, interval, now) == Max(0, NextCallAt(lastEvent, interval) - now)

\* Nothing requested yet: the calls of fetch_page, whether a Delay block is
\* open, the requests issued outside one, the times of the last two returns
\* of Delay.__enter__ and of the last two requests (-1: none).
NoRequests ==
    [calls |-> 0, entered |-> FALSE, unguarded |-> 0,
     prev_enter |-> -1, this_enter |-> -1, prev_request |-> -1, this_request |-> -1]

\* session.get / session.post at time now (lines 57 and 61).
Request(g, now) ==
    [g EXCEPT !.entered = FALSE,
              !.unguarded = IF g.entered THEN @ ELSE @ + 1,
              !.prev_request = g.this_request,
              !.this_request = now]

\* ------------------------------------------------------------------ state
VARIABLES
    heap,          \* the Tag objects, by reference
    cache,         \* TagResolver._cache: name -> reference
    cache_file,    \* TagResolver._cache_file: "None" or "path"
    auto_resolve,  \* TagResolver.auto_resolve
    disk,          \* the file at "path"
    sessions,      \* `previous` of each open resolve_tags block, innermost first
    last,          \* the call made last and how it ended
    hist,          \* names resolve has been run for; names fetched for a resolver call
    saved,         \* the cache as it was when save last wrote the file
    reloaded,      \* the TagResolver constructed last from the file
    ops,           \* calls made so far
    clock,         \* time.time()
    delay,         \* ArchiveApi.delay: [last_event, interval]
    fetch,         \* the fetch_page call in progress, or the one that ended last
    gate,          \* requests and Delay entries seen so far
    chain,         \* the listing pages the site serves, first to last
    pag            \* the _paginate_blurbs generator and what it has yielded

tagVars == <<heap, cache, cache_file, auto_resolve, disk, sessions, last, hist,
             saved, reloaded, ops>>

httpVars == <<clock, delay, fetch, gate>>

pagVars == <<chain, pag>>

vars == <<tagVars, httpVars, pagVars>>

World == [heap |-> heap, cache |-> cache, log |-> <<>>]

\* What a caller sees of a cache: each name's common flag and the name of
\* the tag its canonical reference points at ("None" without one).
View(w) ==
    [n \in DOMAIN w.cache |->
        [common |-> w.heap[w.cache[n]].common,
         canonical |-> IF w.heap[w.cache[n]].canonical = 0 THEN NoName
                       ELSE w.heap[w.heap[w.cache[n]].canonical].name]]

\* The record of a call: what was called with which name, the exception it
\* raised ("None" when it returned), the reference it returned, the pages it
\* fetched, auto_resolve as it was when the call was made, and the number of
\* times it ran TagResolver.save.
Done(op, name, o, auto) ==
    [op |-> op, name |-> name, exc |-> o.exc, ret |-> o.ret, log |-> o.w.log,
     auto |-> auto, saves |-> 0]

NoCall == [op |-> "none", name |-> NoName, exc |-> "None", ret |-> 0,
           log |-> <<>>, auto |-> FALSE, saves |-> 0]

\* A session exit that switches auto-resolve off, whatever it was at entry.
RestoreOff(previous) == FALSE

\* Line 28: self.tag_resolver.auto_resolve = previous
Restore(previous) == previous

\* A cache file written by hand in the form __init__ reads: one object of
\* Tag keyword arguments per name.  JSON carries no object reference, so
\* canonical is null.
FlatFiles ==
    {[exists |-> TRUE, by |-> "user",
      json |-> [n \in DOMAIN c |->
                  [name |-> n, type |-> "freeform", common |-> c[n], canonical |-> 0]]] :
        c \in UNION {[S -> {"None", "True", "False"}] : S \in SUBSET Names}}

\* A cache file in the form save writes (lines 112-113): the map of common
\* flags and the map of canonical names, no tag its own synonym.
PersistedFiles ==
    {[exists |-> TRUE, by |-> "user", json |-> [tags |-> t, canon_map |-> c]] :
        t \in UNION {[S -> {"True", "False"}] : S \in SUBSET Names},
        c \in {d \in UNION {[S -> Names] : S \in SUBSET Names} :
                  \A n \in DOMAIN d : d[n] # n}}

InitTags ==
    /\ \E cf \in {"None", "path"} :
         \E f \in (IF cf = "None" THEN {NoFile} ELSE FlatFiles) :
            /\ cache_file = cf
            /\ disk = f
            /\ heap = load(cf, f).w.heap
            /\ cache = load(cf, f).w.cache
    /\ auto_resolve = FALSE
    /\ sessions = <<>>
    /\ last = NoCall
    /\ hist = [attempted |-> {}, autoFetched |-> {}]
    /\ saved = [valid |-> FALSE, view |-> <<>>]
    /\ reloaded = [state |-> "none", view |-> <<>>]
    /\ ops = 0

\* ---------------------------------------------------------------- actions
\* tag_resolver.get(name, tag_type)
CallGet(n, t) ==
    /\ ops < MaxOps
    /\ LET o == get(World, <<n, t>>)
       IN /\ heap' = o.w.heap
          /\ cache' = o.w.cache
          /\ last' = Done("get", n, o, auto_resolve)
    /\ ops' = ops + 1
    /\ UNCHANGED <<httpVars, pagVars, cache_file, auto_resolve, disk, sessions, hist, saved, reloaded>>

\* tag_resolver(name, tag_type), as Blurb._resolve_tags calls it
CallResolver(n, t) ==
    /\ ops < MaxOps
    /\ \E o \in call(World, auto_resolve, n, t) :
         /\ heap' = o.w.heap
         /\ cache' = o.w.cache
         /\ last' = Done("call", n, o, auto_resolve)
         /\ hist' = IF o.w.log # <<>>
                    THEN [attempted |-> hist.attempted \cup {n},
                          autoFetched |-> hist.autoFetched \cup {n}]
                    ELSE hist
    /\ ops' = ops + 1
    /\ UNCHANGED <<httpVars, pagVars, cache_file, auto_resolve, disk, sessions, saved, reloaded>>

\* tag_resolver.resolve(name)
CallResolve(n) ==
    /\ ops < MaxOps
    /\ \E o \in resolve(World, n) :
         /\ heap' = o.w.heap
         /\ cache' = o.w.cache
         /\ last' = Done("resolve", n, o, auto_resolve)
    /\ hist' = [hist EXCEPT !.attempted = @ \cup {n}]
    /\ ops' = ops + 1
    /\ UNCHANGED <<httpVars, pagVars, cache_file, auto_resolve, disk, sessions, saved, reloaded>>

Written(path) == path # "None" \/ cache_file # "None"

\* tag_resolver.save(path)
CallSave(path) ==
    /\ ops < MaxOps
    /\ disk' = save(World, disk, path, cache_file)
    /\ saved' = IF Written(path) THEN [valid |-> TRUE, view |-> View(World)] ELSE saved
    /\ reloaded' = IF Written(path) THEN [state |-> "none", view |-> <<>>] ELSE reloaded
    /\ last' = [NoCall EXCEPT !.op = "save", !.auto = auto_resolve, !.saves = 1]
    /\ ops' = ops + 1
    /\ UNCHANGED <<httpVars, pagVars, heap, cache, cache_file, auto_resolve, sessions, hist>>

\* TagResolver(api, cache_file="path"): a second resolver built from the file
Reload ==
    /\ ops < MaxOps
    /\ LET o == load("path", disk)
       IN reloaded' = [state |-> IF o.exc = "None" THEN "ok" ELSE o.exc,
                       view |-> View(o.w)]
    /\ last' = [NoCall EXCEPT !.op = "reload", !.auto = auto_resolve]
    /\ ops' = ops + 1
    /\ UNCHANGED <<httpVars, pagVars, heap, cache, cache_file, auto_resolve, disk, sessions, hist, saved>>

\* Artefact.resolve_tags, lines 25-27: up to the yield
EnterResolveTags ==
    /\ ops < MaxOps
    /\ sessions' = <<auto_resolve>> \o sessions
    /\ auto_resolve' = TRUE
    /\ last' = [NoCall EXCEPT !.op = "enter", !.auto = auto_resolve]
    /\ ops' = ops + 1
    /\ UNCHANGED <<httpVars, pagVars, heap, cache, cache_file, disk, hist, saved, reloaded>>

\* Artefact.resolve_tags, lines 28-29: the with block's body ended normally
ExitResolveTags ==
    /\ ops < MaxOps
    /\ sessions # <<>>
    /\ last.exc = "None"
    /\ auto_resolve' = Restore(Head(sessions))
    /\ sessions' = Tail(sessions)
    /\ disk' = save(World, disk, "None", cache_file)
    /\ saved' = IF Written("None") THEN [valid |-> TRUE, view |-> View(World)] ELSE saved
    /\ reloaded' = IF Written("None") THEN [state |-> "none", view |-> <<>>] ELSE reloaded
    /\ last' = [NoCall EXCEPT !.op = "exit", !.auto = auto_resolve, !.saves = 1]
    /\ ops' = ops + 1
    /\ UNCHANGED <<httpVars, pagVars, heap, cache, cache_file, hist>>

\* Artefact.resolve_tags when the body raises: the exception is thrown into
\* the generator at the yield, which has no try/finally, so lines 28-29 do
\* not run.
AbortResolveTags ==
    /\ sessions # <<>>
    /\ last.exc # "None"
    /\ sessions' = Tail(sessions)
    /\ UNCHANGED <<httpVars, pagVars, heap, cache, cache_file, auto_resolve, disk, last, hist, saved,
                   reloaded, ops>>

HttpIdle ==
    /\ clock = Epoch
    /\ delay = [last_event |-> 0, interval |-> 0]
    /\ fetch = [pc |-> "idle", attempt |-> 0, body |-> "None", result |-> "None",
                acquires |-> 0, requests |-> 0, sentinels |-> 0, cooldowns |-> 0,
                waited |-> 0]
    /\ gate = NoRequests

NextTags ==
    \/ \E n \in Names, t \in TagType : CallGet(n, t)
    \/ \E n \in Names, t \in TagType : CallResolver(n, t)
    \/ \E n \in Names : CallResolve(n)
    \/ \E path \in {"None", "path"} : CallSave(path)
    \/ Reload
    \/ EnterResolveTags
    \/ ExitResolveTags
    \/ AbortResolveTags

PagIdle ==
    /\ chain = [anchors |-> 0, entries |-> <<0>>]
    /\ pag = [pc |-> "new", page |-> 1, idx |-> 0, out |-> <<>>, fetches |-> 0]

Init == InitTags /\ HttpIdle /\ PagIdle

Spec == Init /\ [][NextTags]_vars

\* ------------------------------------------ the constructor alone
\* TagResolver(api, cache_file="path") over a file of either form.
InitLoad ==
    /\ disk \in FlatFiles \cup PersistedFiles
    /\ cache_file = "None"
    /\ heap = <<>>
    /\ cache = <<>>
    /\ auto_resolve = FALSE
    /\ sessions = <<>>
    /\ last = NoCall
    /\ hist = [attempted |-> {}, autoFetched |-> {}]
    /\ saved = [valid |-> FALSE, view |-> <<>>]
    /\ reloaded = [state |-> "none", view |-> <<>>]
    /\ ops = 0

NextLoad == Reload

InitSpecLoad == InitLoad /\ HttpIdle /\ PagIdle

SpecLoad == InitSpecLoad /\ [][NextLoad]_vars

\* ------------------------------------------------ the page fetcher alone
\* ArchiveApi(fetch_interval=i) without credentials: Delay(i) starts with
\* _last_event = 0.0, long before the clock's first reading.
InitFetch ==
    /\ clock = Epoch
    /\ \E i \in 0..MaxInterval : delay = [last_event |-> 0, interval |-> i]
    /\ fetch = [pc |-> "idle", attempt |-> 0, body |-> "None", result |-> "None",
                acquires |-> 0, requests |-> 0, sentinels |-> 0, cooldowns |-> 0,
                waited |-> 0]
    /\ gate = NoRequests

TagsIdle ==
    /\ cache_file = "None"
    /\ disk = NoFile
    /\ heap = <<>>
    /\ cache = <<>>
    /\ auto_resolve = FALSE
    /\ sessions = <<>>
    /\ last = NoCall
    /\ hist = [attempted |-> {}, autoFetched |-> {}]
    /\ saved = [valid |-> FALSE, view |-> <<>>]
    /\ reloaded = [state |-> "none", view |-> <<>>]
    /\ ops = 0

\* A body the site sends to say "try again later".
IsSentinel(body) == body \in {"Retry later", "Retry later\n"}

\* fetch_page(path) is called; count(1) yields the first attempt.
FetchPage ==
    /\ fetch.pc \in {"idle", "raised"}
    /\ gate.calls < MaxFetches
    /\ \E late \in 0..MaxLate : clock' = clock + late
    /\ fetch' = [pc |-> "enter", attempt |-> 1, body |-> "None", result |-> "None",
                 acquires |-> 0, requests |-> 0, sentinels |-> 0, cooldowns |-> 0,
                 waited |-> 0]
    /\ gate' = [gate EXCEPT !.calls = @ + 1]
    /\ UNCHANGED <<tagVars, pagVars, delay>>

\* `with self.delay`: Delay.__enter__ sleeps, at least for the time asked,
\* then stores the clock's reading.
DelayEnter ==
    /\ fetch.pc = "enter"
    /\ \E late \in 0..MaxLate :
         clock' = clock + EnterSleep(delay.last_event, delay.interval, clock) + late
    /\ delay' = [delay EXCEPT !.last_event = clock']
    /\ fetch' = [fetch EXCEPT !.pc = "get", !.acquires = @ + 1]
    /\ gate' = [gate EXCEPT !.entered = TRUE,
                            !.prev_enter = gate.this_enter,
                            !.this_enter = clock']
    /\ UNCHANGED <<tagVars, pagVars>>

\* self._get(path): the transport answers with some body; the site stops
\* answering "Retry later" after MaxSentinels of them.
Get ==
    /\ fetch.pc = "get"
    /\ \E body \in Bodies, late \in 0..MaxLate :
         /\ IsSentinel(body) => fetch.sentinels < MaxSentinels
         /\ clock' = clock + late
         /\ fetch' = [fetch EXCEPT !.pc = "check", !.body = body,
                                   !.requests = @ + 1,
                                   !.sentinels = IF IsSentinel(body) THEN @ + 1 ELSE @]
    /\ gate' = Request(gate, clock)
    /\ UNCHANGED <<tagVars, pagVars, delay>>

\* self._get(path) when the transport raises instead of answering.
GetRaises ==
    /\ fetch.pc = "get"
    /\ \E late \in 0..MaxLate : clock' = clock + late
    /\ fetch' = OnTransportError(fetch)
    /\ gate' = Request(gate, clock)
    /\ UNCHANGED <<tagVars, pagVars, delay>>

\* Lines 48-51: the body starts with "Retry later": sleep and try again.
RateLimited ==
    /\ fetch.pc = "check"
    /\ StartsWithRetryLater(fetch.body)
    /\ \E late \in 0..MaxLate : clock' = clock + Cooldown + late
    /\ fetch' = [fetch EXCEPT !.pc = "enter", !.attempt = @ + 1,
                              !.cooldowns = @ + 1, !.waited = @ + Cooldown]
    /\ UNCHANGED <<tagVars, pagVars, delay, gate>>

\* Line 52: return Html.from_response(response)
ReturnHtml ==
    /\ fetch.pc = "check"
    /\ ~StartsWithRetryLater(fetch.body)
    /\ fetch' = [fetch EXCEPT !.pc = "idle", !.result = fetch.body]
    /\ UNCHANGED <<tagVars, pagVars, clock, delay, gate>>

FetchStep == DelayEnter \/ Get \/ GetRaises \/ RateLimited \/ ReturnHtml

NextFetch ==
    \/ FetchPage
    \/ DelayEnter
    \/ Get
    \/ GetRaises
    \/ RateLimited
    \/ ReturnHtml

\* ----------------------------------------------- the fetcher with login
\* ArchiveApi(username=u, password=p, fetch_interval=i): __init__ line 32
\* calls _login before it returns.
InitLogin ==
    /\ clock = Epoch
    /\ \E i \in 0..MaxInterval : delay = [last_event |-> 0, interval |-> i]
    /\ fetch = [pc |-> "login_get", attempt |-> 0, body |-> "None", result |-> "None",
                acquires |-> 0, requests |-> 0, sentinels |-> 0, cooldowns |-> 0,
                waited |-> 0]
    /\ gate = NoRequests

\* _login line 66: self._get("/token_dispenser.json")
LoginGet ==
    /\ fetch.pc = "login_get"
    /\ \E late \in 0..MaxLate : clock' = clock + late
    /\ fetch' = [fetch EXCEPT !.pc = "login_post"]
    /\ gate' = Request(gate, clock)
    /\ UNCHANGED <<tagVars, pagVars, delay>>

\* _login lines 67-86: self._post("/users/login", ...); the site redirects
\* to the user's page, or to a page for which _login raises Exception.
LoginPost ==
    /\ fetch.pc = "login_post"
    /\ \E late \in 0..MaxLate : clock' = clock + late
    /\ \E ok \in BOOLEAN :
         fetch' = IF ok THEN [fetch EXCEPT !.pc = "idle"]
                  ELSE [fetch EXCEPT !.pc = "login_failed", !.result = "Exception"]
    /\ gate' = Request(gate, clock)
    /\ UNCHANGED <<tagVars, pagVars, delay>>

NextLogin ==
    \/ LoginGet
    \/ LoginPost
    \/ FetchPage
    \/ DelayEnter
    \/ Get
    \/ GetRaises
    \/ RateLimited
    \/ ReturnHtml

InitSpecLogin == InitLogin /\ TagsIdle /\ PagIdle

SpecLogin == InitSpecLogin /\ [][NextLogin]_vars

\* The caller is one thread that runs fetch_page to its end.
InitSpecFetch == InitFetch /\ TagsIdle /\ PagIdle

SpecFetch == InitSpecFetch /\ [][NextFetch]_vars /\ WF_vars(FetchStep)

\* ------------------------------------------- core.py: _paginate_blurbs
\* A listing is a chain of pages.  Of a page the generator reads its work
\* blurbs (`entries`, a count) and its link to the next page, which every
\* page but the last has; of the first page it also reads the number of
\* `.pagination a` anchors, the next link being one of them.
Chains ==
    {[anchors |-> a, entries |-> e] :
        a \in 0..MaxAnchors, e \in UNION {[1..n -> 0..MaxEntries] : n \in 1..MaxPages}}

HasNext(c, i) == i < Len(c.entries)

\* Lines 42-43 without the index: the page count is not printed.
NoPageCount(c) == FALSE

\* Lines 42-43: page_links[-2] of a non-empty list of anchors raises
\* IndexError when the list has one element.
PageCountRaises(c) == c.anchors = 1

\* A generator that fetches the next page as soon as it hands out an entry
\* of a page that has one.
AdvancePrefetching(c, g) ==
    IF g.idx < c.entries[g.page]
    THEN [g EXCEPT !.pc = "yielded", !.idx = @ + 1,
                   !.out = Append(@, <<g.page, g.idx + 1>>),
                   !.fetches = IF HasNext(c, g.page) THEN @ + 1 ELSE @]
    ELSE [g EXCEPT !.pc = "done"]

\* The generator runs from where it stands to its next yield, or to its end:
\* lines 44-47 (and 50-51).  An entry is <<page, position>>.
RECURSIVE Advance(_, _)
Advance(c, g) ==
    IF g.idx < c.entries[g.page]
    THEN [g EXCEPT !.pc = "yielded", !.idx = @ + 1,
                   !.out = Append(@, <<g.page, g.idx + 1>>)]
    ELSE IF HasNext(c, g.page)
    THEN Advance(c, [g EXCEPT !.page = @ + 1, !.idx = 0, !.fetches = @ + 1])
    ELSE [g EXCEPT !.pc = "done"]

InitPaginate ==
    /\ \E c \in Chains :
         /\ Len(c.entries) > 1 => c.anchors >= 1
         /\ chain = c
    /\ pag = [pc |-> "new", page |-> 1, idx |-> 0, out |-> <<>>, fetches |-> 0]

\* The consumer asks the generator for its next entry.
PagNext ==
    /\ pag.pc \in {"new", "yielded"}
    /\ pag' = IF pag.pc = "new" /\ PageCountRaises(chain)
              THEN [pag EXCEPT !.pc = "IndexError"]
              ELSE Advance(chain, pag)
    /\ UNCHANGED <<tagVars, httpVars, chain>>

\* The consumer drops the generator.
PagClose ==
    /\ pag.pc \in {"new", "yielded"}
    /\ pag' = [pag EXCEPT !.pc = "closed"]
    /\ UNCHANGED <<tagVars, httpVars, chain>>

NextPaginate ==
    \/ PagNext
    \/ PagClose

InitSpecPaginate == InitPaginate /\ TagsIdle /\ HttpIdle

SpecPaginate == InitSpecPaginate /\ [][NextPaginate]_vars

\* ------------------------------------------------- claims: tag resolver
\* A step that is a call of `op`.
Called(op) == ops' = ops + 1 /\ last'.op = op

CommonOf(name) == IF name \in DOMAIN cache THEN heap[cache[name]].common ELSE "None"

\* C1: a resolve(n) that follows a resolve(n) which returned, and any
\* resolve(n) on a tag whose common is not unknown, returns the cached Tag,
\* fetches no page and leaves the cache as it was.
C1_ResolveIsIdempotent ==
    [][(/\ Called("resolve")
        /\ \/ last.op = "resolve" /\ last.name = last'.name /\ last.exc = "None"
           \/ CommonOf(last'.name) # "None")
       => /\ last'.exc = "None"
          /\ last'.log = <<>>
          /\ last'.name \in DOMAIN cache /\ last'.ret = cache[last'.name]
          /\ View(World)' = View(World)]_vars

C4_SynonymPropagation ==
    (last.op = "resolve" /\ last.log # <<>> /\ last.log[1].page.common)
    => \A s \in last.log[1].page.synonyms :
          /\ last.exc = "None"
          /\ s \in DOMAIN cache
          /\ heap[cache[s]].common = "True"
          /\ heap[cache[s]].canonical = cache[last.name]
          /\ (last.log[1].page.merged = NoName => Len(last.log) = 1)

\* C5: a resolver constructed from the file save wrote holds every tag that
\* had a known common flag with that flag, and every tag that had a
\* canonical reference with a canonical reference of the same name.
C5_RoundTrip ==
    (saved.valid /\ reloaded.state # "none")
    => \A n \in DOMAIN saved.view :
          /\ saved.view[n].common # "None"
             => n \in DOMAIN reloaded.view
                /\ reloaded.view[n].common = saved.view[n].common
          /\ saved.view[n].canonical # NoName
             => n \in DOMAIN reloaded.view
                /\ reloaded.view[n].canonical = saved.view[n].canonical

\* C9: every cached tag that has a canonical reference has common true.
C9_CanonicalIsCommon ==
    \A n \in DOMAIN cache :
        heap[cache[n]].canonical # 0 => heap[cache[n]].common = "True"

\* C10: after resolve(name) has fetched a page without the common markers,
\* resolve has returned the cached record of name, and that record has
\* common false.
C10_NonCommonMarked ==
    (last.op = "resolve" /\ last.log # <<>> /\ ~last.log[1].page.common)
    => /\ last.exc = "None"
       /\ last.name \in DOMAIN cache
       /\ last.ret = cache[last.name]
       /\ heap[cache[last.name]].common = "False"

\* C12: entering a session sets auto_resolve; while a session is open it
\* stays set; a session whose body ended normally restores auto_resolve to
\* what it was when that session was entered, and runs save once, writing
\* the cache as it is then.
C12_SessionNormalExit ==
    /\ [](sessions # <<>> => auto_resolve)
    /\ [][/\ Called("enter") => auto_resolve' /\ Head(sessions') = auto_resolve
          /\ Called("exit")
             => /\ auto_resolve' = Head(sessions)
                /\ last'.saves = 1
                /\ disk' = save(World, disk, "None", cache_file)]_vars

\* The inner of two nested sessions has been left: auto_resolve is still set.
C12_Witness ==
    /\ last.op = "exit"
    /\ sessions = <<FALSE>>
    /\ auto_resolve
    /\ disk.by = "save"

\* A step in which a session is left by an exception of its body.
Aborted == Len(sessions') < Len(sessions) /\ last'.op # "exit"

\* C13: when a session is left by an error of its body, auto_resolve is
\* afterwards what it was when the session was entered, and save has been
\* run on the cache as it is then.
C13_SessionErrorExit ==
    [][Aborted => /\ auto_resolve' = Head(sessions)
                  /\ disk' = save(World, disk, "None", cache_file)
                  /\ Written("None") => saved'.valid /\ saved'.view = View(World)]_vars

IsPersistedForm(file) == file.exists /\ DOMAIN file.json = {"tags", "canon_map"}

\* C14: a resolver constructed from a file with the maps tags and canon_map
\* holds one tag per name of either map and no other; a name of tags that
\* is no synonym has the flag the map gives it, and a name S of canon_map
\* has common true and the tag named canon_map[S] as its canonical tag.
C14_LoadPersistedForm ==
    (reloaded.state # "none" /\ IsPersistedForm(disk))
    => /\ reloaded.state = "ok"
       /\ DOMAIN reloaded.view = DOMAIN disk.json.tags \cup DOMAIN disk.json.canon_map
       /\ \A n \in DOMAIN disk.json.tags \ DOMAIN disk.json.canon_map :
             reloaded.view[n].common = disk.json.tags[n]
       /\ \A n \in DOMAIN disk.json.canon_map :
             /\ reloaded.view[n].common = "True"
             /\ reloaded.view[n].canonical = disk.json.canon_map[n]

\* A step that is a call which does not resolve: get, or the resolver
\* called with auto_resolve off.
NonResolving == Called("get") \/ (Called("call") /\ ~auto_resolve)

\* C15: a call that does not resolve returns the cached record of its name
\* and fetches no page; every tag cached before keeps its common and
\* canonical values; the one name the cache may gain is the call's, with
\* common unknown and no canonical tag; the same call made again returns
\* the same record and changes nothing.
C15_NonResolvingFrame ==
    [][NonResolving
       => /\ last'.exc = "None"
          /\ last'.log = <<>>
          /\ last'.name \in DOMAIN cache' /\ last'.ret = cache'[last'.name]
          /\ DOMAIN cache' = DOMAIN cache \cup {last'.name}
          /\ \A n \in DOMAIN cache : View(World)'[n] = View(World)[n]
          /\ last'.name \notin DOMAIN cache
             => View(World)'[last'.name] = [common |-> "None", canonical |-> NoName]
          /\ (last.op = last'.op /\ last.name = last'.name /\ last.exc = "None")
             => last'.ret = last.ret /\ View(World)' = View(World)]_vars

\* C16: a resolve(n0) that fetched a common page naming a merge target has
\* resolved the target before returning: it returned, every page down the
\* chain of merge targets was fetched in turn until one named no target,
\* and every name whose page was fetched has common true or false.
C16_MergeFollowing ==
    (last.op = "resolve" /\ last.log # <<>> /\ last.log[1].page.common
        /\ last.log[1].page.merged # NoName)
    => /\ last.exc = "None"
       /\ \A i \in 1..Len(last.log) :
             /\ last.log[i].name \in DOMAIN cache
             /\ heap[cache[last.log[i].name]].common # "None"
             /\ IF i < Len(last.log)
                THEN last.log[i].page.common /\ last.log[i].page.merged = last.log[i + 1].name
                ELSE ~last.log[i].page.common \/ last.log[i].page.merged = NoName

\* C18: over every call, each cached name stays cached and each tag that
\* has a canonical tag keeps having one.
C18_NeverRetracts ==
    [][\A n \in DOMAIN cache :
          /\ n \in DOMAIN cache'
          /\ heap[cache[n]].canonical # 0 => heap'[cache'[n]].canonical # 0]_vars

\* A tag that has a canonical tag, which is what C18's second half is about.
C18_SynonymCached == \E n \in DOMAIN cache : heap[cache[n]].canonical # 0

\* C20: a resolve(name) whose page was fetched returns the cached Tag of
\* name, whatever the page holds.
C20_ResolveReturns ==
    (last.op = "resolve" /\ last.log # <<>>)
    => /\ last.exc = "None"
       /\ last.name \in DOMAIN cache
       /\ last.ret = cache[last.name]

\* ------------------------------------------------- claims: page fetcher
Returned == fetch.pc = "idle" /\ gate.calls > 0

Raised == fetch.pc = "raised"

\* C6: a fetch_page call answered by k sentinel bodies and then a real one
\* returns, and returns the real page, after k + 1 requests, each behind its
\* own Delay entry, and k sleeps of Cooldown seconds.  (A call ends in one of
\* two ways, by returning or, when the transport fails, by raising.)
C6_RateLimitRecovery ==
    /\ [](Returned =>
            /\ fetch.result \in Bodies /\ ~IsSentinel(fetch.result)
            /\ fetch.requests = fetch.sentinels + 1
            /\ fetch.acquires = fetch.requests
            /\ fetch.cooldowns = fetch.sentinels
            /\ fetch.waited = Cooldown * fetch.sentinels
            /\ gate.unguarded = 0)
    /\ ((fetch.pc \notin {"idle", "raised"}) ~> (Returned \/ Raised))

C6_Witness ==
    /\ Returned
    /\ fetch.sentinels = 2
    /\ fetch.requests = 3
    /\ fetch.result = "<html><p>Retry later</p>"

\* C11: when the GET of an attempt raises, the call ends there with that
\* error: the failed request is its last, no cooldown is slept for it, and
\* nothing more happens until fetch_page is called again; an attempt follows
\* another in the same call only after a sentinel body.
C11_TransportErrorNotRetried ==
    /\ [](Raised =>
            /\ fetch.result = "ConnectionError"
            /\ fetch.requests = fetch.sentinels + 1
            /\ fetch.cooldowns = fetch.sentinels
            /\ fetch.waited = Cooldown * fetch.sentinels)
    /\ [][/\ Raised => fetch'.pc = "enter" /\ gate'.calls = gate.calls + 1
          /\ (fetch'.attempt > fetch.attempt /\ gate'.calls = gate.calls)
             => fetch.pc = "check" /\ IsSentinel(fetch.body)]_vars

\* The second attempt of a call fails, after one sentinel and its cooldown.
C11_Witness ==
    /\ Raised
    /\ fetch.attempt = 2
    /\ fetch.sentinels = 1
    /\ fetch.requests = 2

\* C19: every request is issued inside a Delay block, and two requests in
\* a row are at least fetch_interval apart.
C19_LoginRateLimited ==
    /\ gate.unguarded = 0
    /\ gate.prev_request >= 0 => gate.this_request - gate.prev_request >= delay.interval

\* C8: two consecutive returns of Delay.__enter__ are at least interval
\* apart, and a return leaves the clock's reading in _last_event.
C8_MinimumInterval ==
    /\ gate.this_enter >= 0 => delay.last_event = gate.this_enter
    /\ gate.prev_enter >= 0 => gate.this_enter - gate.prev_enter >= delay.interval

\* Reached only by sleeping: the second call starts right after the first.
C8_Witness ==
    /\ gate.calls = 2
    /\ fetch.attempt = 1
    /\ delay.interval = 2
    /\ gate.prev_enter >= 0
    /\ gate.this_enter - gate.prev_enter = delay.interval

\* ---------------------------------------------------- claims: paginator
RECURSIVE EntriesFrom(_, _)
EntriesFrom(c, i) ==
    IF i > Len(c.entries) THEN <<>>
    ELSE [j \in 1..c.entries[i] |-> <<i, j>>] \o EntriesFrom(c, i + 1)

\* The entries of pages 1..k, in order.
RECURSIVE EntriesUpTo(_, _)
EntriesUpTo(c, k) ==
    IF k = 0 THEN <<>>
    ELSE EntriesUpTo(c, k - 1) \o [j \in 1..c.entries[k] |-> <<k, j>>]

\* C17: a step fetches pages only when the consumer asks for an entry
\* having received every entry of the pages fetched so far; once an entry
\* of page k has been received, k - 1 pages have been fetched beyond the
\* first; and a generator the consumer has dropped does nothing more.
C17_LazyPagination ==
    /\ [](pag.out # <<>> /\ pag.pc \in {"yielded", "closed"}
            => pag.fetches <= pag.out[Len(pag.out)][1] - 1)
    /\ [][/\ pag'.fetches > pag.fetches
             => /\ pag.pc \in {"new", "yielded"}
                /\ pag.out = EntriesUpTo(chain, pag.page)
                /\ pag.page = pag.fetches + 1
          /\ pag.pc = "closed" => pag' = pag]_vars

\* The consumer stopped after the last entry of page 2 of three pages: page
\* 3 was never fetched.
C17_Witness ==
    /\ pag.pc = "closed"
    /\ Len(chain.entries) = 3
    /\ pag.out = EntriesUpTo(chain, 2)
    /\ chain.entries[2] > 0
    /\ pag.fetches = 1

Consumed == pag.pc \notin {"new", "yielded", "closed"}

\* C7: consuming _paginate_blurbs(p1) to its end ends normally, having
\* yielded the entries of p1, ..., pn in order and fetched n - 1 pages.
C7_PaginationTerminates ==
    Consumed => /\ pag.pc = "done"
                /\ pag.out = EntriesFrom(chain, 1)
                /\ pag.fetches = Len(chain.entries) - 1

====
